---- MODULE Spec2Model ----
(***************************************************************************)
(* A state-machine model of neurodiffeq/ode.py: solve_system (the          *)
(* configuration checks, the epoch loop with its training pass, validation *)
(* pass, monitor call and best-checkpoint update), _trial_solution and the *)
(* Solution class (deep-copying constructor and __call__).                 *)
(*                                                                         *)
(* Networks and conditions are Python objects: they live in two stores     *)
(* (netStore, condStore) and are referred to by their index, so that a     *)
(* copy and an alias are different things in the model as they are in the  *)
(* program.  The external collaborators (equation system, criterion,       *)
(* metric functions, optimizer, generators, monitor) are abstracted: an    *)
(* optimizer step leaves some parameter value of ParamVals in every        *)
(* network it owns, a loss or a metric is a fixed function of the trial    *)
(* solution it is computed from (the generators' points are the same in    *)
(* every pass), and any collaborator call may raise.  Losses are finite    *)
(* numbers; NaN and infinite losses are not modelled.  The arguments       *)
(* optimizer, criterion and additional_loss_term are left at their         *)
(* defaults.                                                               *)
(***************************************************************************)
EXTENDS Integers, Sequences, FiniteSets, TLC

\* ------------------------------------------------------------------ bounds
MaxConds == 2
MaxTrainSize == 3
MaxBatchSize == 2
MaxEpochs == 2
MaxCheckEvery == 2
MaxParam == 1

\* The default generators hold 32 points (Generator1D(32, ...)).
DefaultGeneratorSize == 32

\* ------------------------------------------------------------ Python values
\* Python's None, for the arguments and locals that otherwise hold a
\* non-negative number or an object reference (references start at 1).
None == -1

\* An optional list (the nets argument): None or a list of references.
NoneList == [isNone |-> TRUE, items |-> << >>]

List(s) == [isNone |-> FALSE, items |-> s]

\* Python truth value of an optional reference / of an optional list.
Truthy(ref) == ref # None

TruthyList(l) == (~l.isNone) /\ Len(l.items) > 0

\* np.inf, the initial valid_loss_epoch_min: above every finite loss (a loss
\* is at most the sum of MaxConds parameter values).
Inf == MaxConds * MaxParam + 1

ParamVals == 0..MaxParam

\* The points a Solution is evaluated at.
Points == {0, 1}

Min(a, b) == IF a < b THEN a ELSE b

\* ------------------------------------------------------------------- state
VARIABLES
    args,                 \* the arguments of the solve_system call
    caller,               \* the arguments of the caller's call of the returned Solution
    pc,                   \* position of the call
    netStore,             \* network objects: reference -> [params, n_output_units]
    condStore,            \* condition objects: reference -> [u0, ith]
    single_net,           \* local single_net (reference or None)
    nets,                 \* local nets (optional list of references)
    train_generator,      \* local train_generator (its size, or None)
    valid_generator,      \* local valid_generator (its size, or None)
    optimizer,            \* the networks whose parameters optimizer.step() updates
    ith,                  \* loop index of the set_impose_on loop
    imposeCalls,          \* the set_impose_on calls made so far: <<condition, slot>>
    history,              \* the history dict: series name -> list
    valid_loss_epoch_min, \* best-checkpoint state
    solution_min,
    epoch,                \* loop variable of the epoch loop
    idx,                  \* traversal order of the current training pass
    batch_start,
    batch_end,
    batches,              \* batch_idx of every optimizer step of the current pass
    optStepTaken,         \* has optimizer.step() been called
    grad,                 \* the batches whose loss gradients the parameters' .grad holds
    lossCalls,            \* the points of each calculate_loss call of the current epoch
    train_loss_batch,     \* local of train(): the loss of the latest batch
    trialEvaluated,       \* has _trial_solution been evaluated
    valid_loss_epoch,     \* local of the epoch loop
    monitorCalls,         \* the monitor.check calls: <<epoch, history lengths>>
    result,               \* what solve_system returned
    raised,               \* the exception that ended the call, or "none"
    evaluation            \* the call of the returned Solution, and how it ended

vars == << args, caller, pc, netStore, condStore, single_net, nets, train_generator,
           valid_generator, optimizer, ith, imposeCalls, history,
           valid_loss_epoch_min, solution_min, epoch, idx, batch_start,
           batch_end, batches, optStepTaken, grad, lossCalls, train_loss_batch,
           trialEvaluated, valid_loss_epoch, monitorCalls, result, raised, evaluation >>

\* ------------------------------------------------------- pure computations
\* Python slice s[a:b] of a list, for 0 <= a and 0 <= b (positions from 0).
Slice(s, a, b) ==
    LET hi == Min(b, Len(s))
    IN  IF hi > a THEN [k \in 1..(hi - a) |-> s[a + k]] ELSE << >>

\* np.arange(n): positions 0 .. n-1 in order.
Arange(n) == [k \in 1..n |-> k - 1]

\* The orders np.random.permutation(n) can return.  Every permutation is
\* enumerated up to MaxTrainSize points; for a larger set (the default
\* generator) the identity and the reversal stand for them.
RandomPermutations(n) ==
    IF n <= MaxTrainSize
    THEN {p \in [1..n -> 0..(n - 1)] : \A i, j \in 1..n : i # j => p[i] # p[j]}
    ELSE {Arange(n), [k \in 1..n |-> n - k]}

\* idx of a training pass (line 236).
Traversals(n, shuffle) == IF shuffle THEN RandomPermutations(n) ELSE {Arange(n)}

\* con.enforce(net, ts): the constrained value is determined by the
\* condition (its constraint u0 and its output slot ith), the parameters of
\* the network it is enforced on, and the points.
Enforce(cstore, nstore, con, net, ts) ==
    [u0 |-> cstore[con].u0, ith |-> cstore[con].ith,
     params |-> nstore[net].params, ts |-> ts]

\* zip(conditions, nets): pairs up to the shorter of the two lists.
ZipLen(conditions, netlist) == Min(Len(conditions), Len(netlist))

\* _trial_solution(single_net, nets, ts, conditions)
TrialSolution(cstore, nstore, snet, netlist, ts, conditions) ==
    IF Truthy(snet)
    THEN [i \in 1..Len(conditions) |-> Enforce(cstore, nstore, conditions[i], snet, ts)]
    ELSE [i \in 1..ZipLen(conditions, netlist.items) |->
              Enforce(cstore, nstore, conditions[i], netlist.items[i], ts)]

\* calculate_loss (lines 275-284): a number determined by the trial
\* solution; here the sum of the parameter values the constrained values
\* were computed from.
RECURSIVE SumParams(_, _)
SumParams(us, n) == IF n = 0 THEN 0 ELSE us[n].params + SumParams(us, n - 1)

CalculateLoss(us) == SumParams(us, Len(us))

\* calculate_metrics (lines 286-292), for each metric: a number determined
\* by the trial solution; here the parameter value the first constrained
\* value was computed from.
MetricValue(us) == IF Len(us) > 0 THEN us[1].params ELSE 0

\* deepcopy of a list of objects: the store with the copies added ...
DeepcopyStoreMoving(store, refs) ==
    [r \in DOMAIN store |->
        IF (\E k \in 1..Len(refs) : refs[k] = r) /\ "params" \in DOMAIN store[r]
        THEN [store[r] EXCEPT !.params = 0] ELSE store[r]]
      \o [k \in 1..Len(refs) |-> store[refs[k]]]

DeepcopyStore(store, refs) == store \o [k \in 1..Len(refs) |-> store[refs[k]]]

\* ... and the references of the copies.
DeepcopyRefsAliased(store, refs) == refs

DeepcopyRefs(store, refs) == [k \in 1..Len(refs) |-> Len(store) + k]

\* An optional reference as a list of zero or one references, and back.
RefList(ref) == IF Truthy(ref) THEN << ref >> ELSE << >>

RefOf(refs) == IF Len(refs) > 0 THEN refs[1] ELSE None

\* The value None where a Solution is expected (solution_min = None).
NoSolution ==
    [isNone |-> TRUE, single_net |-> None, nets |-> NoneList, conditions |-> << >>]

\* Solution.__init__(single_net, nets, conditions): the new object, ...
SolutionInit(cstore, nstore, snet, netlist, conditions) ==
    LET nstore1 == DeepcopyStore(nstore, RefList(snet))
    IN  [isNone |-> FALSE,
         single_net |-> RefOf(DeepcopyRefs(nstore, RefList(snet))),
         nets |-> IF netlist.isNone THEN NoneList
                  ELSE List(DeepcopyRefs(nstore1, netlist.items)),
         conditions |-> DeepcopyRefs(cstore, conditions)]

\* ... the network store after its two deepcopy calls, ...
SolutionInitNetStore(nstore, snet, netlist) ==
    LET nstore1 == DeepcopyStore(nstore, RefList(snet))
    IN  IF netlist.isNone THEN nstore1 ELSE DeepcopyStore(nstore1, netlist.items)

\* ... and the condition store after its deepcopy call.
SolutionInitCondStore(cstore, conditions) == DeepcopyStore(cstore, conditions)

\* Solution.__call__(ts, as_type), for a valid as_type: the values of the
\* trial solution on the owned copies, a single value when there is one
\* dependent variable.
SolutionCall(cstore, nstore, sol, ts) ==
    LET us == TrialSolution(cstore, nstore, sol.single_net, sol.nets, ts, sol.conditions)
    IN  IF Len(sol.conditions) > 1 THEN us ELSE us[1]

\* line 415
ReturnTypeError == "ValueError: The valid return types are 'tf' and 'np'."

\* The values given as as_type: the two valid ones and one that is not.
ReturnTypes == {"tf", "np", "list"}

\* line 414
ValidReturnTypeAny(as_type) == TRUE

ValidReturnType(as_type) == as_type \in {"tf", "np"}

\* lines 419-420: the values as tensors, or converted to numpy arrays.
AsType(value, as_type) ==
    [kind |-> IF as_type = "np" THEN "numpy.array" ELSE "torch.Tensor",
     value |-> value]

\* The caller does not call the Solution.
NoCall == [ts |-> None, as_type |-> ""]

\* No call of the Solution has been made.
NotCalled ==
    [ts |-> None, as_type |-> "", trials |-> 0, raised |-> "none", returned |-> << >>]

\* Solution.__call__(ts, as_type), with how it ends: the exception raised or
\* the value returned (in a one-element list), and the number of
\* _trial_solution evaluations made.  Lines 410-413 bring ts to a column of
\* points and change no object.
SolutionCallOutcome(cstore, nstore, sol, ts, as_type) ==
    IF ~ValidReturnType(as_type)
    THEN [ts |-> ts, as_type |-> as_type, trials |-> 0,
          raised |-> ReturnTypeError, returned |-> << >>]
    ELSE [ts |-> ts, as_type |-> as_type, trials |-> 1, raised |-> "none",
          returned |-> << AsType(SolutionCall(cstore, nstore, sol, ts), as_type) >>]

\* --------------------------------------------------------- the history dict
\* The series created at lines 329-334.
HistoryKeys(metrics) ==
    {"train_loss", "valid_loss"}
        \cup {"train__" \o m : m \in metrics} \cup {"valid__" \o m : m \in metrics}

\* history[key].append(value)
HistoryAppendFront(h, key, value) == [h EXCEPT ![key] = << value >> \o h[key]]

HistoryAppend(h, key, value) == [h EXCEPT ![key] = Append(h[key], value)]

\* The appends of lines 345-347 (prefix "train") and 353-355 (prefix "valid").
RECURSIVE AppendMetrics(_, _, _, _)
AppendMetrics(h, prefix, names, value) ==
    IF names = {} THEN h
    ELSE LET m == CHOOSE x \in names : TRUE
         IN  AppendMetrics(HistoryAppend(h, prefix \o "__" \o m, value),
                           prefix, names \ {m}, value)

AppendEpoch(h, prefix, loss, names, value) ==
    AppendMetrics(HistoryAppend(h, prefix \o "_loss", loss), prefix, names, value)

\* ------------------------------------------------------- the configuration
\* line 295
NetsConflictNever(snet, netlist) == FALSE

NetsConflict(snet, netlist) == Truthy(snet) /\ TruthyList(netlist)

\* line 298
NetsOmitted(snet, netlist) == (~Truthy(snet)) /\ (~TruthyList(netlist))

\* line 308: enumerate(conditions) hands condition number i the slot i.
ImposeSlotZero(i) == 0

ImposeSlot(i) == i

\* lines 310 and 314
BoundsMissingBoth(t_min, t_max) == (t_min = None) /\ (t_max = None)

BoundsMissing(t_min, t_max) == (t_min = None) \/ (t_max = None)

\* ------------------------------------------------------- the training pass
\* lines 240-241
ClipBatchEnd(b_end, n) == IF b_end > n THEN n ELSE b_end

\* line 251
NextBatchStartSkipping(b_start, b_size) == b_start + b_size + 1

NextBatchStart(b_start, b_size) == b_start + b_size

\* line 360
\* line 247: optimizer.zero_grad() clears the accumulated gradients.
ZeroGradKeeping(g) == g

ZeroGrad(g) == << >>

\* line 248: backward() adds the gradients of the loss of this batch.
Backward(g, batch_idx) == Append(g, batch_idx)

IsLowerOrEqual(loss, lowest) == loss <= lowest

IsLower(loss, lowest) == loss < lowest

\* ------------------------------------------------------------------- Init
NetObject(n_out) == [params |-> 0, n_output_units |-> n_out]

CondObject(i) == [u0 |-> i, ith |-> None]

\* The calls that are modelled are of three kinds.  Every configuration of
\* networks, generators and bounds, the conflicting and the incomplete ones
\* included, with a plain training loop (one epoch, batches of one point,
\* in order, no monitor, no best checkpoint, no metrics); ...
EveryConfiguration(tg, sh, bs, me, mon, rb, ms) ==
    /\ tg \in {None, 1}
    /\ ~sh /\ bs = 1 /\ me = 1 /\ mon = None /\ ~rb /\ ms = {}

\* ... every training pass (set size, order, batch size) over every number
\* of epochs, for one condition on the default network, with given
\* generators, no bounds, no monitor, no best checkpoint and no metrics; ...
EveryTrainingPass(nc, ns, nn, tmin, tmax, tg, vg, mon, rb, ms) ==
    /\ nc = 1 /\ ns = 0 /\ nn = None
    /\ tmin = None /\ tmax = None /\ tg # None /\ vg # None
    /\ mon = None /\ ~rb /\ ms = {}

\* ... and every epoch loop (epochs, monitor, best checkpoint, metrics) for
\* each network configuration that passes the checks (default network,
\* given single network, one network per condition), with given generators,
\* no bounds, and a training set of at most one point in batches of one.
EveryEpochLoop(nc, ns, nn, tmin, tmax, tg, vg, sh, bs) ==
    /\ << ns, nn >> \in {<< 0, None >>, << 1, None >>, << 0, nc >>}
    /\ tmin = None /\ tmax = None /\ tg \in {0, 1} /\ vg # None
    /\ ~sh /\ bs = 1

\* After a call of a fourth kind the caller calls the returned Solution, at
\* any point and with any as_type: a call with any network configuration,
\* with or without the best checkpoint, and a plain training loop (one
\* epoch, one training point, given generators, no bounds, no monitor, no
\* metrics).
EveryEvaluation(tmin, tmax, tg, vg, sh, bs, me, mon, ms) ==
    /\ tmin = None /\ tmax = None /\ tg = 1 /\ vg # None
    /\ ~sh /\ bs = 1 /\ me = 1 /\ mon = None /\ ms = {}

Init ==
    \E nc \in 1..MaxConds, ns \in {0, 1}, nn \in {None} \cup (0..MaxConds),
       tmin \in {None, 0}, tmax \in {None, 1},
       tg \in {None} \cup (0..MaxTrainSize), vg \in {None, 1},
       sh \in BOOLEAN, bs \in 0..MaxBatchSize, me \in 0..MaxEpochs,
       mon \in {None} \cup (1..MaxCheckEvery),
       rb \in BOOLEAN, ms \in {{}, {"m"}},
       call \in {NoCall} \cup [ts : Points, as_type : ReturnTypes] :
        /\ \/ /\ call = NoCall
              /\ \/ EveryConfiguration(tg, sh, bs, me, mon, rb, ms)
                 \/ EveryTrainingPass(nc, ns, nn, tmin, tmax, tg, vg, mon, rb, ms)
                 \/ EveryEpochLoop(nc, ns, nn, tmin, tmax, tg, vg, sh, bs)
           \/ /\ call # NoCall
              /\ EveryEvaluation(tmin, tmax, tg, vg, sh, bs, me, mon, ms)
        /\ caller = call
        /\ args = [conditions |-> [i \in 1..nc |-> i],
                   t_min |-> tmin, t_max |-> tmax,
                   single_net |-> IF ns = 1 THEN 1 ELSE None,
                   nets |-> IF nn = None THEN NoneList
                            ELSE List([i \in 1..nn |-> ns + i]),
                   train_generator |-> tg, shuffle |-> sh, valid_generator |-> vg,
                   metrics |-> ms, batch_size |-> bs, max_epochs |-> me,
                   monitor |-> mon, return_best |-> rb]
        /\ condStore = [i \in 1..nc |-> CondObject(i)]
        /\ netStore = [i \in 1..(ns + IF nn = None THEN 0 ELSE nn) |->
                          NetObject(IF ns = 1 /\ i = 1 THEN nc ELSE 1)]
        /\ single_net = IF ns = 1 THEN 1 ELSE None
        /\ nets = IF nn = None THEN NoneList ELSE List([i \in 1..nn |-> ns + i])
        /\ train_generator = tg
        /\ valid_generator = vg
        /\ pc = "check_nets"
        /\ optimizer = {}
        /\ ith = 0
        /\ imposeCalls = << >>
        /\ history = << >>
        /\ valid_loss_epoch_min = Inf
        /\ solution_min = NoSolution
        /\ epoch = 0
        /\ idx = << >>
        /\ batch_start = 0
        /\ batch_end = 0
        /\ batches = << >>
        /\ optStepTaken = FALSE
        /\ grad = << >>
        /\ lossCalls = << >>
        /\ train_loss_batch = None
        /\ trialEvaluated = FALSE
        /\ valid_loss_epoch = None
        /\ monitorCalls = << >>
        /\ result = << >>
        /\ raised = "none"
        /\ evaluation = NotCalled

\* ---------------------------------------------------------------- actions
\* line 296
ConflictError == "RuntimeError: Only one of net and nets should be specified"

\* lines 311 and 315 (the same message for both generators)
BoundsError ==
    "RuntimeError: Please specify t_min and t_max when train_generator is not specified"

cfgVars == << train_generator, valid_generator, optimizer, history,
              valid_loss_epoch_min, solution_min >>

loopVars == << epoch, idx, batch_start, batch_end, batches, optStepTaken,
               grad, lossCalls, train_loss_batch, trialEvaluated,
               valid_loss_epoch, monitorCalls >>

\* lines 295-296: both a single network and a network list.
CheckNets ==
    /\ pc = "check_nets"
    /\ IF NetsConflict(single_net, nets)
       THEN /\ pc' = "raised"
            /\ raised' = ConflictError
       ELSE /\ pc' = "default_net"
            /\ UNCHANGED raised
    /\ UNCHANGED << args, caller, netStore, condStore, single_net, nets, ith, imposeCalls,
                    evaluation, result >>
    /\ UNCHANGED cfgVars
    /\ UNCHANGED loopVars

\* lines 298-304: the default shared network.
DefaultNet ==
    /\ pc = "default_net"
    /\ IF NetsOmitted(single_net, nets)
       THEN /\ netStore' = Append(netStore, NetObject(Len(args.conditions)))
            /\ single_net' = Len(netStore) + 1
       ELSE UNCHANGED << netStore, single_net >>
    /\ ith' = 0
    /\ pc' = "impose"
    /\ UNCHANGED << args, caller, condStore, nets, imposeCalls, evaluation, result, raised >>
    /\ UNCHANGED cfgVars
    /\ UNCHANGED loopVars

\* lines 305-308, one iteration: con.set_impose_on(ith).
SetImposeOn ==
    /\ pc = "impose"
    /\ Truthy(single_net)
    /\ ith < Len(args.conditions)
    /\ LET con == args.conditions[ith + 1]
       IN  /\ condStore' = [condStore EXCEPT ![con].ith = ImposeSlot(ith)]
           /\ imposeCalls' = Append(imposeCalls, << con, ImposeSlot(ith) >>)
    /\ ith' = ith + 1
    /\ UNCHANGED << args, caller, pc, netStore, single_net, nets, evaluation, result, raised >>
    /\ UNCHANGED cfgVars
    /\ UNCHANGED loopVars

\* lines 305-308: no single network, or the loop is over.
ImposeDone ==
    /\ pc = "impose"
    /\ (~Truthy(single_net)) \/ ith >= Len(args.conditions)
    /\ pc' = "train_generator"
    /\ UNCHANGED << args, caller, netStore, condStore, single_net, nets, ith, imposeCalls,
                    evaluation, result, raised >>
    /\ UNCHANGED cfgVars
    /\ UNCHANGED loopVars

\* lines 309-312
ResolveTrainGenerator ==
    /\ pc = "train_generator"
    /\ IF train_generator = None
       THEN IF BoundsMissing(args.t_min, args.t_max)
            THEN /\ pc' = "raised"
                 /\ raised' = BoundsError
                 /\ UNCHANGED train_generator
            ELSE /\ train_generator' = DefaultGeneratorSize
                 /\ pc' = "valid_generator"
                 /\ UNCHANGED raised
       ELSE /\ pc' = "valid_generator"
            /\ UNCHANGED << train_generator, raised >>
    /\ UNCHANGED << args, caller, netStore, condStore, single_net, nets, ith, imposeCalls,
                    evaluation, result, valid_generator, optimizer, history,
                    valid_loss_epoch_min, solution_min >>
    /\ UNCHANGED loopVars

\* lines 313-316
ResolveValidGenerator ==
    /\ pc = "valid_generator"
    /\ IF valid_generator = None
       THEN IF BoundsMissing(args.t_min, args.t_max)
            THEN /\ pc' = "raised"
                 /\ raised' = BoundsError
                 /\ UNCHANGED valid_generator
            ELSE /\ valid_generator' = DefaultGeneratorSize
                 /\ pc' = "resolve"
                 /\ UNCHANGED raised
       ELSE /\ pc' = "resolve"
            /\ UNCHANGED << valid_generator, raised >>
    /\ UNCHANGED << args, caller, netStore, condStore, single_net, nets, ith, imposeCalls,
                    evaluation, result, train_generator, optimizer, history,
                    valid_loss_epoch_min, solution_min >>
    /\ UNCHANGED loopVars

\* lines 317-338: default optimizer over the active networks, the empty
\* history series, the best-checkpoint state.
Resolve ==
    /\ pc = "resolve"
    /\ optimizer' = IF Truthy(single_net) THEN {single_net}
                    ELSE IF TruthyList(nets)
                         THEN {nets.items[i] : i \in 1..Len(nets.items)}
                         ELSE {}
    /\ history' = [k \in HistoryKeys(args.metrics) |-> << >>]
    /\ IF args.return_best
       THEN /\ valid_loss_epoch_min' = Inf
            /\ solution_min' = NoSolution
       ELSE UNCHANGED << valid_loss_epoch_min, solution_min >>
    /\ pc' = "epoch"
    /\ UNCHANGED << args, caller, netStore, condStore, single_net, nets, ith, imposeCalls,
                    evaluation, result, raised, train_generator, valid_generator >>
    /\ UNCHANGED loopVars

\* The parameters after optimizer.step(): every network the optimizer owns
\* holds some parameter value; the other objects are untouched.
Stepped(nstore, owned, new) ==
    [r \in DOMAIN nstore |->
        IF r \in owned THEN [nstore[r] EXCEPT !.params = new[r]] ELSE nstore[r]]

\* line 340 and, when the loop goes on, lines 233-238 of train().
ForEpoch ==
    /\ pc = "epoch"
    /\ IF epoch < args.max_epochs
       THEN /\ \E order \in Traversals(train_generator, args.shuffle) : idx' = order
            /\ batch_start' = 0
            /\ batch_end' = args.batch_size
            /\ batches' = << >>
            /\ lossCalls' = << >>
            /\ train_loss_batch' = None
            /\ pc' = "train_loop"
       ELSE /\ pc' = "return"
            /\ UNCHANGED << idx, batch_start, batch_end, batches, lossCalls,
                            train_loss_batch >>
    /\ UNCHANGED << args, caller, netStore, condStore, single_net, nets, ith, imposeCalls,
                    evaluation, result, raised, epoch, optStepTaken, grad, trialEvaluated,
                    valid_loss_epoch, monitorCalls >>
    /\ UNCHANGED cfgVars

\* lines 239-252, one iteration of the while loop: the batch, its loss,
\* zero_grad, backward, one optimizer step.
TrainBatch ==
    /\ pc = "train_loop"
    /\ batch_start < train_generator
    /\ LET b_end == ClipBatchEnd(batch_end, train_generator)
           batch_idx == Slice(idx, batch_start, b_end)
       IN  /\ batches' = IF Len(batches) <= train_generator
                         THEN Append(batches, batch_idx) ELSE batches
           /\ lossCalls' = IF Len(batches) <= train_generator
                           THEN Append(lossCalls, batch_idx) ELSE lossCalls
           /\ train_loss_batch' =
                 CalculateLoss(TrialSolution(condStore, netStore, single_net, nets,
                                             batch_idx, args.conditions))
           /\ grad' = Backward(ZeroGrad(grad), batch_idx)
           /\ batch_start' = NextBatchStart(batch_start, args.batch_size)
           /\ batch_end' = b_end + args.batch_size
    /\ \E new \in [optimizer -> ParamVals] : netStore' = Stepped(netStore, optimizer, new)
    /\ optStepTaken' = TRUE
    /\ trialEvaluated' = TRUE
    /\ UNCHANGED << args, caller, pc, condStore, single_net, nets, ith, imposeCalls,
                    evaluation, result, raised, epoch, idx, valid_loss_epoch, monitorCalls >>
    /\ UNCHANGED cfgVars

\* lines 254-261 and 345-347: the loss and the metrics over the whole
\* training set, appended to the history.
TrainEval ==
    /\ pc = "train_loop"
    /\ ~(batch_start < train_generator)
    /\ LET us == TrialSolution(condStore, netStore, single_net, nets,
                               Arange(train_generator), args.conditions)
       IN  /\ lossCalls' = Append(lossCalls, Arange(train_generator))
           /\ history' = AppendEpoch(history, "train", CalculateLoss(us),
                                     args.metrics, MetricValue(us))
    /\ trialEvaluated' = TRUE
    /\ pc' = "valid"
    /\ UNCHANGED << args, caller, netStore, condStore, single_net, nets, ith, imposeCalls,
                    evaluation, result, raised, epoch, idx, batch_start, batch_end, batches,
                    optStepTaken, grad, train_loss_batch, valid_loss_epoch,
                    monitorCalls >>
    /\ UNCHANGED << train_generator, valid_generator, optimizer,
                    valid_loss_epoch_min, solution_min >>

\* lines 263-273 and 349-355: the validation pass, appended to the history.
Valid ==
    /\ pc = "valid"
    /\ LET us == TrialSolution(condStore, netStore, single_net, nets,
                               Arange(valid_generator), args.conditions)
       IN  /\ valid_loss_epoch' = CalculateLoss(us)
           /\ lossCalls' = Append(lossCalls, Arange(valid_generator))
           /\ history' = AppendEpoch(history, "valid", CalculateLoss(us),
                                     args.metrics, MetricValue(us))
    /\ trialEvaluated' = TRUE
    /\ pc' = "monitor"
    /\ UNCHANGED << args, caller, netStore, condStore, single_net, nets, ith, imposeCalls,
                    evaluation, result, raised, epoch, idx, batch_start, batch_end, batches,
                    optStepTaken, grad, train_loss_batch, monitorCalls >>
    /\ UNCHANGED << train_generator, valid_generator, optimizer,
                    valid_loss_epoch_min, solution_min >>

\* line 357
MonitorDueAlways == args.monitor # None

MonitorDue == args.monitor # None /\ epoch % args.monitor = 0

\* lines 357-358
Monitor ==
    /\ pc = "monitor"
    /\ IF MonitorDue
       THEN monitorCalls' =
                Append(monitorCalls,
                       [epoch |-> epoch,
                        lengths |-> [k \in DOMAIN history |-> Len(history[k])],
                        best |-> valid_loss_epoch_min])
       ELSE UNCHANGED monitorCalls
    /\ pc' = "best"
    /\ UNCHANGED << args, caller, netStore, condStore, single_net, nets, ith, imposeCalls,
                    evaluation, result, raised, epoch, idx, batch_start, batch_end, batches,
                    optStepTaken, grad, lossCalls, train_loss_batch, trialEvaluated,
                    valid_loss_epoch >>
    /\ UNCHANGED cfgVars

\* lines 360-362, and the step of the for loop.
BestCheckpoint ==
    /\ pc = "best"
    /\ IF args.return_best /\ IsLower(valid_loss_epoch, valid_loss_epoch_min)
       THEN /\ valid_loss_epoch_min' = valid_loss_epoch
            /\ solution_min' = SolutionInit(condStore, netStore, single_net, nets,
                                            args.conditions)
            /\ netStore' = SolutionInitNetStore(netStore, single_net, nets)
            /\ condStore' = SolutionInitCondStore(condStore, args.conditions)
       ELSE UNCHANGED << valid_loss_epoch_min, solution_min, netStore, condStore >>
    /\ epoch' = epoch + 1
    /\ pc' = "epoch"
    /\ UNCHANGED << args, caller, single_net, nets, ith, imposeCalls, evaluation, result, raised,
                    idx, batch_start, batch_end, batches, optStepTaken, grad,
                    lossCalls, train_loss_batch, trialEvaluated, valid_loss_epoch,
                    monitorCalls >>
    /\ UNCHANGED << train_generator, valid_generator, optimizer, history >>

\* lines 369-378
Internal ==
    [single_net |-> single_net, nets |-> nets, conditions |-> args.conditions,
     train_generator |-> train_generator, valid_generator |-> valid_generator,
     optimizer |-> optimizer, criterion |-> "MSELoss"]

\* lines 364-381.  The argument return_internal is read here only, so it is
\* drawn here.
Return ==
    /\ pc = "return"
    /\ \E return_internal \in BOOLEAN :
       LET solution == IF args.return_best THEN solution_min
                       ELSE SolutionInit(condStore, netStore, single_net, nets,
                                         args.conditions)
       IN  result' = IF return_internal
                     THEN << solution, history, Internal >>
                     ELSE << solution, history >>
    /\ IF args.return_best
       THEN UNCHANGED << netStore, condStore >>
       ELSE /\ netStore' = SolutionInitNetStore(netStore, single_net, nets)
            /\ condStore' = SolutionInitCondStore(condStore, args.conditions)
    /\ pc' = "done"
    /\ UNCHANGED << args, caller, single_net, nets, ith, imposeCalls, raised, evaluation >>
    /\ UNCHANGED cfgVars
    /\ UNCHANGED loopVars

\* A collaborator raises: the equation system, the criterion, a metric
\* function or the optimizer in the training pass or the validation pass,
\* or the monitor in its check.  Nothing catches it; the call ends there.
CollaboratorRaises ==
    /\ \/ pc \in {"train_loop", "valid"}
       \/ pc = "monitor" /\ MonitorDue
    /\ pc' = "raised"
    /\ raised' = "collaborator error in " \o pc
    /\ UNCHANGED << args, caller, netStore, condStore, single_net, nets, ith, imposeCalls,
                    evaluation, result >>
    /\ UNCHANGED cfgVars
    /\ UNCHANGED loopVars

\* lines 399-422: the caller evaluates the Solution that solve_system
\* returned, at its points and with its as_type.
SolutionEvaluate ==
    /\ pc = "done"
    /\ caller # NoCall
    /\ ~result[1].isNone
    /\ evaluation = NotCalled
    /\ evaluation' = SolutionCallOutcome(condStore, netStore, result[1],
                                         caller.ts, caller.as_type)
    /\ UNCHANGED << args, caller, pc, netStore, condStore, single_net, nets, ith,
                    imposeCalls, result, raised >>
    /\ UNCHANGED cfgVars
    /\ UNCHANGED loopVars

Next ==
    \/ CheckNets
    \/ DefaultNet
    \/ SetImposeOn
    \/ ImposeDone
    \/ ResolveTrainGenerator
    \/ ResolveValidGenerator
    \/ Resolve
    \/ ForEpoch
    \/ TrainBatch
    \/ TrainEval
    \/ Valid
    \/ Monitor
    \/ BestCheckpoint
    \/ Return
    \/ CollaboratorRaises
    \/ SolutionEvaluate

Spec == Init /\ [][Next]_vars

\* The interpreter keeps executing the call: a step that can be taken is
\* taken.
FairSpec == Spec /\ WF_vars(Next)

\* ================================================================ claims
Terminated == pc = "done"

HistoryCreated == DOMAIN history # {}

\* s is t with one element appended.
IsAppendOf(s, t) == Len(s) = Len(t) + 1 /\ SubSeq(s, 1, Len(t)) = t

\* C1: when solve_system returns, every series of the history (train_loss,
\* valid_loss and train__m / valid__m for every tracked metric m) holds
\* exactly max_epochs entries; whenever the epoch loop is at its head every
\* series holds one entry per completed epoch; and a step of the run leaves
\* a series as it is or appends one element to it.
C1_HistoryLengths ==
    /\ [](Terminated =>
            /\ DOMAIN history = HistoryKeys(args.metrics)
            /\ \A k \in DOMAIN history : Len(history[k]) = args.max_epochs
            /\ result[2] = history)
    /\ [](pc = "epoch" => \A k \in DOMAIN history : Len(history[k]) = epoch)
    /\ [][HistoryCreated =>
            /\ DOMAIN history' = DOMAIN history
            /\ \A k \in DOMAIN history :
                  history'[k] = history[k] \/ IsAppendOf(history'[k], history[k])]_vars

\* C1 witness: a run of MaxEpochs epochs with a tracked metric has returned,
\* with different values in one series.
C1_Witness ==
    /\ Terminated
    /\ args.max_epochs = MaxEpochs
    /\ args.metrics # {}
    /\ Len(history["valid__m"]) = MaxEpochs
    /\ history["train_loss"][1] # history["train_loss"][MaxEpochs]

\* The training pass has left its while loop (and no later pass has begun).
PassOver ==
    \/ pc = "train_loop" /\ ~(batch_start < train_generator)
    \/ pc \in {"valid", "monitor", "best"}

RECURSIVE Flatten(_)
Flatten(ss) == IF ss = << >> THEN << >> ELSE Head(ss) \o Flatten(Tail(ss))

Ceil(n, b) == (n + b - 1) \div b

\* C2: for a batch size B >= 1 and a training set of N points, a training
\* pass takes exactly ceil(N / B) optimizer steps; its batches, one after
\* the other, are the traversal order idx (consecutive slices, every index
\* in exactly one batch, N points in all); every batch but the last holds B
\* points and the last holds between 1 and B.
C2_Batches ==
    (args.batch_size >= 1 /\ PassOver) =>
        /\ Len(batches) = Ceil(train_generator, args.batch_size)
        /\ Flatten(batches) = idx
        /\ Len(idx) = train_generator
        /\ \A i \in 1..Len(batches) :
              /\ i < Len(batches) => Len(batches[i]) = args.batch_size
              /\ Len(batches[i]) >= 1
              /\ Len(batches[i]) <= args.batch_size

\* C2 witness: a shuffled pass over 3 points in batches of 2 is over, its
\* last batch holding the one remaining point.
C2_Witness ==
    /\ PassOver
    /\ args.batch_size = 2
    /\ train_generator = 3
    /\ idx # Arange(3)
    /\ Len(batches) = 2
    /\ Len(batches[2]) = 1

\* What a Solution (or the live configuration) holds: the network and
\* condition objects its references lead to.
Contents(cstore, nstore, snet, netlist, conditions) ==
    [single_net |-> [i \in 1..Len(RefList(snet)) |-> nstore[RefList(snet)[i]]],
     nets |-> [isNone |-> netlist.isNone,
               items |-> [i \in 1..Len(netlist.items) |-> nstore[netlist.items[i]]]],
     conditions |-> [i \in 1..Len(conditions) |-> cstore[conditions[i]]]]

SolutionContents(cstore, nstore, sol) ==
    Contents(cstore, nstore, sol.single_net, sol.nets, sol.conditions)

\* The validation loss of a Solution, recomputed from the copies it owns.
SolutionValidLoss(sol) ==
    CalculateLoss(TrialSolution(condStore, netStore, sol.single_net, sol.nets,
                                Arange(valid_generator), sol.conditions))

RECURSIVE MinOf(_)
MinOf(seq) ==
    IF Len(seq) = 1 THEN seq[1] ELSE Min(Head(seq), MinOf(Tail(seq)))

Last(seq) == seq[Len(seq)]

\* C3: with return_best, (i) the best-checkpoint update of epoch e leaves
\* solution_min as it is unless the validation loss of epoch e is strictly
\* lower than the validation loss of every earlier epoch, and then makes it
\* a snapshot of the live networks and conditions (so the checkpoint is the
\* snapshot of the earliest epoch that reached the lowest loss); (ii) no
\* other step changes solution_min; (iii) after a run of at least one epoch
\* the returned Solution is solution_min, and its validation loss,
\* recomputed from the copies it owns, is the minimum of
\* history['valid_loss'], hence <= the final epoch's validation loss.
C3_ReturnBest ==
    /\ [][(pc = "best" /\ args.return_best) =>
            IF \A j \in 1..epoch :
                   history["valid_loss"][epoch + 1] < history["valid_loss"][j]
            THEN /\ ~solution_min'.isNone
                 /\ SolutionContents(condStore', netStore', solution_min')
                      = Contents(condStore, netStore, single_net, nets, args.conditions)
            ELSE solution_min' = solution_min]_vars
    /\ [][pc # "best" => solution_min' = solution_min]_vars
    /\ []((Terminated /\ args.return_best /\ args.max_epochs >= 1) =>
            /\ result[1] = solution_min
            /\ ~result[1].isNone
            /\ SolutionValidLoss(result[1]) = MinOf(history["valid_loss"])
            /\ SolutionValidLoss(result[1]) <= Last(history["valid_loss"]))

\* C3 witness: a run with return_best has returned the snapshot of its
\* first epoch, whose validation loss is lower than the final epoch's.
C3_Witness ==
    /\ Terminated
    /\ args.return_best
    /\ args.max_epochs = 2
    /\ history["valid_loss"][1] < history["valid_loss"][2]
    /\ SolutionValidLoss(result[1]) = history["valid_loss"][1]

\* The references a Solution owns, and those of the live configuration.
NetRefs(snet, netlist) ==
    {RefList(snet)[i] : i \in 1..Len(RefList(snet))}
        \cup {netlist.items[i] : i \in 1..Len(netlist.items)}

CondRefs(conditions) == {conditions[i] : i \in 1..Len(conditions)}

\* C4: a Solution shares no network and no condition object with the live
\* configuration, and as long as solution_min is the same Solution, no step
\* of the run (an optimizer step on the live networks in particular)
\* changes the objects it owns or the value its evaluation returns at any
\* point.
C4_SnapshotIsolation ==
    /\ [](~solution_min.isNone =>
            /\ NetRefs(solution_min.single_net, solution_min.nets)
                 \cap NetRefs(single_net, nets) = {}
            /\ CondRefs(solution_min.conditions) \cap CondRefs(args.conditions) = {})
    /\ [][(~solution_min.isNone /\ solution_min' = solution_min) =>
            /\ SolutionContents(condStore', netStore', solution_min)
                 = SolutionContents(condStore, netStore, solution_min)
            /\ \A ts \in Points :
                  SolutionCall(condStore', netStore', solution_min, ts)
                    = SolutionCall(condStore, netStore, solution_min, ts)]_vars

\* C4 witness: training went on after a snapshot was taken, and the live
\* shared network no longer has the parameters the snapshot holds.
C4_Witness ==
    /\ ~solution_min.isNone
    /\ Truthy(single_net)
    /\ optStepTaken
    /\ epoch >= 1
    /\ netStore[solution_min.single_net].params # netStore[single_net].params

\* C5: when solve_system returns, the first component of its result is a
\* Solution: the best-checkpoint Solution with return_best, otherwise a
\* Solution holding copies of the final networks and conditions.
C5_ResultIsSolution ==
    Terminated =>
        /\ ~result[1].isNone
        /\ args.return_best => result[1] = solution_min
        /\ ~args.return_best =>
              SolutionContents(condStore, netStore, result[1])
                = Contents(condStore, netStore, single_net, nets, args.conditions)

\* Both a single network and a list of networks are supplied (an empty list
\* is no list of networks: Python takes it for an omitted one).
BothSupplied ==
    /\ args.single_net # None
    /\ ~args.nets.isNone
    /\ Len(args.nets.items) >= 1

NothingRun ==
    /\ epoch = 0
    /\ ~optStepTaken
    /\ ~trialEvaluated
    /\ batches = << >>
    /\ monitorCalls = << >>

\* C6: a call with both a single network and a network list ends with the
\* configuration-conflict error and nothing else: it never gets past the
\* check, and when the error is raised no pass has run, no optimizer step
\* has been taken, there is no history entry and no condition has been
\* given an output slot.
C6_ConflictFirst ==
    /\ BothSupplied => (pc \in {"check_nets", "raised"}
                        /\ (pc = "raised" => raised = ConflictError))
    /\ raised = ConflictError =>
          /\ BothSupplied
          /\ NothingRun
          /\ ~HistoryCreated
          /\ imposeCalls = << >>
          /\ \A c \in DOMAIN condStore : condStore[c].ith = None
          /\ result = << >>

\* C6 witness: the conflict error has been raised for a call with a single
\* network and one network per condition.
C6_Witness ==
    /\ raised = ConflictError
    /\ Len(args.nets.items) = Len(args.conditions)
    /\ Len(args.conditions) = 2

CollaboratorFailed == pc = "raised" /\ raised \notin {ConflictError, BoundsError}

\* C7: when a collaborator failure ends the run during epoch e, every
\* series of the history has the same length, e: no series holds an entry
\* of the epoch that was aborted.
C7_EpochAtomic ==
    CollaboratorFailed => \A k \in DOMAIN history : Len(history[k]) = epoch

\* The positions of the configuration phase (lines 295-338).
Configuring ==
    pc \in {"check_nets", "default_net", "impose", "train_generator",
            "valid_generator", "resolve"}

\* A generator is omitted and a domain bound is missing.
BoundsNeededAndMissing ==
    /\ args.train_generator = None \/ args.valid_generator = None
    /\ args.t_min = None \/ args.t_max = None

\* The call ends with the missing-domain-bounds error and nothing else, and
\* the error is raised before any epoch.
EndsWithBoundsError ==
    /\ Configuring \/ pc = "raised"
    /\ pc = "raised" => raised = BoundsError

BoundsErrorBeforeTraining ==
    raised = BoundsError => (NothingRun /\ ~HistoryCreated /\ result = << >>)

\* C8, as stated: the missing-domain-bounds error is raised, before any
\* epoch and any optimizer step, exactly when a generator is not supplied
\* and t_min or t_max is None.
C8_BoundsErrorExactly ==
    /\ BoundsNeededAndMissing => EndsWithBoundsError
    /\ raised = BoundsError => BoundsNeededAndMissing
    /\ BoundsErrorBeforeTraining

\* C8, amended: the missing-domain-bounds error is raised, before any epoch
\* and any optimizer step, exactly when the call does not supply both a
\* single network and a network list (which raises the conflict error
\* first), a generator is not supplied and t_min or t_max is None; with both
\* generators supplied the run goes on with t_min = t_max = None.
C8_BoundsErrorAfterNetsCheck ==
    /\ (BoundsNeededAndMissing /\ ~NetsConflict(args.single_net, args.nets))
          => EndsWithBoundsError
    /\ raised = BoundsError =>
          (BoundsNeededAndMissing /\ ~NetsConflict(args.single_net, args.nets))
    /\ BoundsErrorBeforeTraining

\* C8 witness: the error has been raised for the validation generator, with
\* the training generator supplied and only t_max missing.
C8_Witness ==
    /\ raised = BoundsError
    /\ args.train_generator # None
    /\ args.valid_generator = None
    /\ args.t_min # None
    /\ args.t_max = None

\* C8 witness of the other half: a run with both generators and no bounds
\* has returned.
C8_WitnessNoBounds ==
    /\ Terminated
    /\ args.t_min = None
    /\ args.t_max = None

\* C9: every call ends, by returning or by raising, and one that returns
\* has run exactly max_epochs epochs.
C9_Terminates ==
    /\ <>(pc \in {"done", "raised"})
    /\ [](Terminated =>
            /\ epoch = args.max_epochs
            /\ \A k \in DOMAIN history : Len(history[k]) = args.max_epochs)

\* The configuration is over (for a call that ended by raising: it did not
\* end at the nets check).
PastImpose ==
    \/ pc \in {"train_generator", "valid_generator", "resolve", "epoch",
               "train_loop", "valid", "monitor", "best", "return", "done"}
    \/ pc = "raised" /\ raised # ConflictError

\* C10: once the slot loop is over, in single-network mode the calls of
\* set_impose_on are exactly one per condition, condition number i (from 0)
\* with slot i, and each condition holds its slot; the default network has
\* len(conditions) output units; in multi-network mode there is no call and
\* no slot; and no trial solution is evaluated before the loop is over.
C10_SlotProtocol ==
    /\ (PastImpose /\ Truthy(single_net)) =>
          /\ imposeCalls = [i \in 1..Len(args.conditions) |->
                               << args.conditions[i], i - 1 >>]
          /\ \A i \in 1..Len(args.conditions) :
                condStore[args.conditions[i]].ith = i - 1
    /\ (PastImpose /\ NetsOmitted(args.single_net, args.nets)) =>
          /\ Truthy(single_net)
          /\ netStore[single_net].n_output_units = Len(args.conditions)
    /\ (PastImpose /\ ~Truthy(single_net)) =>
          /\ imposeCalls = << >>
          /\ \A c \in DOMAIN condStore : condStore[c].ith = None
    /\ trialEvaluated => PastImpose

\* C10 witness: two conditions on the default network, slots 0 and 1, and a
\* trial solution has been evaluated.
C10_Witness ==
    /\ NetsOmitted(args.single_net, args.nets)
    /\ Len(args.conditions) = 2
    /\ trialEvaluated
    /\ imposeCalls = << << 1, 0 >>, << 2, 1 >> >>
    /\ netStore[single_net].n_output_units = 2

\* The network that value number i of the trial solution is to come from:
\* the shared network, or network number i of the list.
NetworkFor(snet, netlist, i) ==
    IF Truthy(snet) THEN snet
    ELSE IF i <= Len(netlist.items) THEN netlist.items[i] ELSE None

\* C11: for every configuration the run works with (a shared network, or a
\* list of networks) and every batch of points, the trial solution has
\* exactly one value per condition, in condition order: value i is
\* condition i enforced on the shared network, or on network i of the list;
\* its length is len(conditions) also when the network list and the
\* condition list differ in length.
C11_OnePerCondition ==
    PastImpose =>
        \A ts \in Points :
            LET us == TrialSolution(condStore, netStore, single_net, nets, ts,
                                    args.conditions)
            IN  /\ Len(us) = Len(args.conditions)
                /\ \A i \in 1..Len(us) :
                      /\ NetworkFor(single_net, nets, i) # None
                      /\ us[i] = Enforce(condStore, netStore, args.conditions[i],
                                         NetworkFor(single_net, nets, i), ts)

\* C12: a call of the returned Solution with an as_type other than 'tf' and
\* 'np' ends with the ValueError of line 415, whatever the points and the
\* number of conditions: no trial solution is evaluated by the call,
\* nothing is returned, and the step leaves every network and condition
\* object (those the Solution owns in particular) as it was.
C12_InvalidReturnType ==
    /\ [](evaluation.as_type \notin {"", "tf", "np"} =>
            /\ evaluation.raised = ReturnTypeError
            /\ evaluation.trials = 0
            /\ evaluation.returned = << >>)
    /\ [][(evaluation' # evaluation /\ evaluation'.as_type \notin {"tf", "np"}) =>
            /\ netStore' = netStore
            /\ condStore' = condStore
            /\ result' = result
            /\ SolutionContents(condStore', netStore', result[1])
                 = SolutionContents(condStore, netStore, result[1])]_vars

\* C12 witness: a Solution of two dependent variables has been called with
\* as_type 'list' and the call raised.
C12_Witness ==
    /\ evaluation.as_type = "list"
    /\ evaluation.raised = ReturnTypeError
    /\ evaluation.ts = 1
    /\ Len(result[1].conditions) = 2

\* The number of epochs whose monitor step is over.
MonitorStepsOver == IF pc = "best" THEN epoch + 1 ELSE epoch

\* The epochs below n whose index is a multiple of check_every, in order.
MultiplesBelow(n, check_every) ==
    LET IsMultiple(e) == e % check_every = 0
    IN  SelectSeq(Arange(n), IsMultiple)

\* The lowest validation loss of the epochs before epoch e (np.inf if none).
LowestBefore(e) ==
    IF e = 0 THEN Inf ELSE MinOf(SubSeq(history["valid_loss"], 1, e))

\* C13: with a monitor, the calls of monitor.check made so far are one for
\* each epoch whose monitor step is over and whose index is a multiple of
\* check_every (epoch 0 included), in epoch order, and no other; the
\* history a call receives has epoch + 1 entries in every series (training
\* loss, validation loss, each metric); the call precedes the
\* best-checkpoint update of its epoch: the step that makes it leaves the
\* checkpoint alone and leads to the update of the same epoch, and the
\* lowest loss at the call is the one of the earlier epochs.  Without a
\* monitor there is no call.
C13_MonitorSchedule ==
    /\ [](args.monitor # None =>
            /\ [i \in 1..Len(monitorCalls) |-> monitorCalls[i].epoch]
                 = MultiplesBelow(MonitorStepsOver, args.monitor)
            /\ \A i \in 1..Len(monitorCalls) :
                  /\ DOMAIN monitorCalls[i].lengths = HistoryKeys(args.metrics)
                  /\ \A k \in DOMAIN monitorCalls[i].lengths :
                        monitorCalls[i].lengths[k] = monitorCalls[i].epoch + 1
                  /\ args.return_best =>
                        monitorCalls[i].best = LowestBefore(monitorCalls[i].epoch))
    /\ [](args.monitor = None => monitorCalls = << >>)
    /\ [][monitorCalls' # monitorCalls =>
            /\ pc = "monitor" /\ pc' = "best"
            /\ epoch' = epoch
            /\ history' = history
            /\ valid_loss_epoch_min' = valid_loss_epoch_min
            /\ solution_min' = solution_min]_vars

\* C13 witness: two epochs with check_every = 2, metrics and return_best:
\* the run returned with one call, for epoch 0, and the second epoch
\* lowered the validation loss.
C13_Witness ==
    /\ Terminated
    /\ args.monitor = 2
    /\ args.max_epochs = 2
    /\ args.return_best
    /\ args.metrics # {}
    /\ Len(monitorCalls) = 1
    /\ history["valid_loss"][2] < history["valid_loss"][1]

\* The step is an optimizer step of the training pass (lines 239-252).
IsOptimizerStep ==
    /\ pc = "train_loop" /\ batch_start < train_generator
    /\ pc' = "train_loop"
    /\ optStepTaken'

\* The live networks keep their parameters in the step.
LiveParamsKept ==
    \A r \in NetRefs(single_net, nets) :
        r \in DOMAIN netStore' /\ netStore'[r].params = netStore[r].params

\* C14: a step changes a network object only if it is an optimizer step of
\* the training pass, and then only the networks the optimizer owns; the
\* loss and metrics over the whole training set, the validation pass, the
\* history appends, the monitor step, the construction of a Solution (at
\* the best checkpoint and at return) and the call of the returned Solution
\* leave the parameters of the live networks as they are, so they are
\* constant from the last optimizer step of an epoch to the first of the
\* next.
C14_ParamsFrame ==
    /\ [][\A r \in DOMAIN netStore :
            /\ r \in DOMAIN netStore'
            /\ netStore'[r] # netStore[r] => (IsOptimizerStep /\ r \in optimizer)]_vars
    /\ [][(\/ pc = "train_loop" /\ ~(batch_start < train_generator)
           \/ pc \in {"valid", "monitor", "best", "epoch", "return", "done"})
            => LiveParamsKept]_vars
    /\ [][history' # history => LiveParamsKept]_vars

\* C14 witness: a run with the best checkpoint has returned and the returned
\* Solution has been called; the shared network holds the parameter 1 that
\* an optimizer step gave it.
C14_Witness ==
    /\ Terminated
    /\ args.return_best
    /\ optStepTaken
    /\ Truthy(single_net)
    /\ netStore[single_net].params = 1
    /\ ~result[1].isNone
    /\ netStore[result[1].single_net].params = 1
    /\ evaluation.trials = 1

\* The batch of the next iteration of the while loop of train().
CurrentBatch == Slice(idx, batch_start, ClipBatchEnd(batch_end, train_generator))

\* The loss over the points ts under the parameters the live networks hold.
LiveLoss(ts) ==
    CalculateLoss(TrialSolution(condStore, netStore, single_net, nets, ts,
                                args.conditions))

\* C15: (i) every iteration of the training loop computes the loss of its
\* batch under the parameters as they are before the step, clears the
\* gradients and backpropagates that loss (the gradients then are those of
\* this batch alone), takes one optimizer step, and only then moves on to
\* the next batch; (ii) the step that records the training loss of the
\* epoch comes after the last batch, when every earlier loss computation of
\* the epoch was a batch's, and records one evaluation over the whole
\* training set under the parameters the last optimizer step left, without
\* changing them; (iii) once the validation loss is recorded too, the loss
\* computations of the epoch were the batches', one over the whole training
\* set and one over the validation set, in this order, and the two recorded
\* losses are the losses under one and the same parameter state, the one
\* the live networks hold.
C15_TrainLossAfterLastStep ==
    /\ [][IsOptimizerStep =>
            /\ train_loss_batch' = LiveLoss(CurrentBatch)
            /\ grad' = << CurrentBatch >>
            /\ Len(batches) <= train_generator =>
                  /\ batches' = Append(batches, CurrentBatch)
                  /\ lossCalls' = Append(lossCalls, CurrentBatch)
            /\ batch_start' = batch_start + args.batch_size]_vars
    /\ [][(pc = "train_loop" /\ pc' = "valid") =>
            /\ ~(batch_start < train_generator)
            /\ lossCalls = batches
            /\ lossCalls' = Append(lossCalls, Arange(train_generator))
            /\ history'["train_loss"]
                 = Append(history["train_loss"], LiveLoss(Arange(train_generator)))
            /\ netStore' = netStore]_vars
    /\ [](pc \in {"monitor", "best"} =>
            /\ lossCalls = batches \o << Arange(train_generator), Arange(valid_generator) >>
            /\ history["train_loss"][epoch + 1] = LiveLoss(Arange(train_generator))
            /\ history["valid_loss"][epoch + 1] = LiveLoss(Arange(valid_generator)))

\* C15 witness: an epoch of two batches whose losses were both 0 (the second
\* optimizer step changed the parameters) has recorded the training loss 1
\* and the validation loss 1.
C15_Witness ==
    /\ pc = "best"
    /\ Len(batches) = 2
    /\ train_loss_batch = 0
    /\ grad = << batches[2] >>
    /\ history["train_loss"][epoch + 1] = 1
    /\ history["valid_loss"][epoch + 1] = 1

====
